---- MODULE Spec2Model ----
(***************************************************************************)
(* TalentMatch-360 (src/app.py): the tolerant JSON extractor               *)
(* extract_json_obj and the Streamlit session handlers that call it.       *)
(*                                                                         *)
(* A text is a sequence of characters.  The characters that matter to the  *)
(* regular expressions and to the JSON grammar are kept apart; letters and *)
(* digits are represented by a few samples.                                *)
(***************************************************************************)
EXTENDS Integers, Sequences, FiniteSets, TLC

VARIABLES
  \* one call of extract_json_obj
  text,        \* the argument
  intent,      \* how the argument was written: the object meant and its wrapping
  pc,          \* where the call stands
  raw,         \* m.group(0)
  cleaned,     \* the span after the cleaning of lines 98-101
  nloads,      \* the calls of json.loads made so far
  ret,         \* what the call ended with
  \* st.session_state
  history,
  last_analysis,
  resume_text,
  multi_analyses,
  multi_resume_texts,
  best_resume,
  last_raw_response,
  \* what the last run of a handler did, and how many runs there were
  run,
  runs,
  \* history variables
  last_ok,          \* the latest analysis that succeeded, single or multi
  best_resume_for   \* the batch whose ranking best_resume holds

\* ------------------------------------------------------------ characters
LB  == "{"
RB  == "}"
LK  == "["
RK  == "]"
CM  == ","
CL  == ":"
SP  == " "
DQ  == "\""
AP  == "'"
\* U+201C, U+201D, U+2018, U+2019: the typographic quotes of line 101
LDQ == "LDQ"
RDQ == "RDQ"
LSQ == "LSQ"
RSQ == "RSQ"
ONE == "1"

\* a line feed
NL  == "NL"

Chars == {LB, RB, LK, RK, CM, CL, SP, DQ, AP, LDQ, RDQ, LSQ, RSQ, ONE, NL, "a", "b", "x"}

\* ---------------------------------------------------------------- bounds
\* longest array among the generated JSON values
MaxArr == 1
\* deepest chain of nested objects among the generated JSON values
MaxNest == 4
\* longest text of the exhaustive family of inputs
MaxRaw == 4

\* json.loads raises RecursionError, not JSONDecodeError, on entering a
\* container nested deeper than the interpreter allows (about 1000 levels
\* by default in CPython); the model scales that limit down.
RecLimit == 3

\* ---------------------------------------------------------- JSON values
\* One record shape for every value, so that any two values compare.
\* An object is the set of its <<key, value>> pairs, one pair per key.
NoVal == [t |-> "none", n |-> 0, s |-> <<>>, arr |-> <<>>, obj |-> {}]

Num(n) == [t |-> "num", n |-> n, s |-> <<>>, arr |-> <<>>, obj |-> {}]

Str(s) == [t |-> "str", n |-> 0, s |-> s, arr |-> <<>>, obj |-> {}]

Arr(a) == [t |-> "arr", n |-> 0, s |-> <<>>, arr |-> a, obj |-> {}]

Obj(ps) == [t |-> "obj", n |-> 0, s |-> <<>>, arr |-> <<>>, obj |-> ps]

EmptyDict == Obj({})

HasKey(o, k) == \E p \in o.obj : p[1] = k

\* dict.get(k, default)
Get(o, k, default) == IF HasKey(o, k) THEN (CHOOSE p \in o.obj : p[1] = k)[2] ELSE default

\* d[k] = v: a later value for the same key replaces the earlier one
Put(ps, k, v) == {p \in ps : p[1] # k} \cup {<<k, v>>}

\* ------------------------------------------------------------ json.loads
RECURSIVE SkipWs(_, _)
\* the index of the first character at or after i that is not whitespace
SkipWs(s, i) == IF i <= Len(s) /\ s[i] = SP THEN SkipWs(s, i + 1) ELSE i

RECURSIVE StrEnd(_, _)
\* the index of the double quote that closes a string whose content starts
\* at i, or 0 when the string is not terminated
StrEnd(s, i) == IF i > Len(s) THEN 0 ELSE IF s[i] = DQ THEN i ELSE StrEnd(s, i + 1)

RECURSIVE NumEnd(_, _)
\* the index after the digits that start at i
NumEnd(s, i) == IF i <= Len(s) /\ s[i] = ONE THEN NumEnd(s, i + 1) ELSE i

DecodeError == [st |-> "JSONDecodeError", val |-> NoVal, pos |-> 0]

RecursionError == [st |-> "RecursionError", val |-> NoVal, pos |-> 0]

Parsed(v, p) == [st |-> "ok", val |-> v, pos |-> p]

RECURSIVE ParseValue(_, _, _)
RECURSIVE ParseMembers(_, _, _, _)
RECURSIVE ParseElements(_, _, _, _)

\* the members of an object from the key expected at i; d containers are open
ParseMembers(s, i, d, acc) ==
  IF i > Len(s) \/ s[i] # DQ THEN DecodeError
  ELSE LET e == StrEnd(s, i + 1) IN
    IF e = 0 THEN DecodeError
    ELSE LET k == SubSeq(s, i + 1, e - 1)
             c == SkipWs(s, e + 1) IN
      IF c > Len(s) \/ s[c] # CL THEN DecodeError
      ELSE LET r == ParseValue(s, SkipWs(s, c + 1), d) IN
        IF r.st # "ok" THEN r
        ELSE LET q == SkipWs(s, r.pos)
                 acc2 == Put(acc, k, r.val) IN
          IF q > Len(s) THEN DecodeError
          ELSE IF s[q] = RB THEN Parsed(Obj(acc2), q + 1)
          ELSE IF s[q] # CM THEN DecodeError
          ELSE ParseMembers(s, SkipWs(s, q + 1), d, acc2)

\* the elements of an array from the value expected at i
ParseElements(s, i, d, acc) ==
  LET r == ParseValue(s, i, d) IN
    IF r.st # "ok" THEN r
    ELSE LET q == SkipWs(s, r.pos)
             acc2 == Append(acc, r.val) IN
      IF q > Len(s) THEN DecodeError
      ELSE IF s[q] = RK THEN Parsed(Arr(acc2), q + 1)
      ELSE IF s[q] # CM THEN DecodeError
      ELSE ParseElements(s, SkipWs(s, q + 1), d, acc2)

\* the value that starts at i, inside d open containers
ParseValue(s, i, d) ==
  IF i > Len(s) THEN DecodeError
  ELSE IF s[i] = DQ THEN
    LET e == StrEnd(s, i + 1) IN
      IF e = 0 THEN DecodeError ELSE Parsed(Str(SubSeq(s, i + 1, e - 1)), e + 1)
  ELSE IF s[i] = ONE THEN
    LET e == NumEnd(s, i) IN Parsed(Num(e - i), e)
  ELSE IF s[i] = LB THEN
    IF d + 1 > RecLimit THEN RecursionError
    ELSE LET j == SkipWs(s, i + 1) IN
      IF j <= Len(s) /\ s[j] = RB THEN Parsed(EmptyDict, j + 1)
      ELSE ParseMembers(s, j, d + 1, {})
  ELSE IF s[i] = LK THEN
    IF d + 1 > RecLimit THEN RecursionError
    ELSE LET j == SkipWs(s, i + 1) IN
      IF j <= Len(s) /\ s[j] = RK THEN Parsed(Arr(<<>>), j + 1)
      ELSE ParseElements(s, j, d + 1, <<>>)
  ELSE DecodeError

\* json.loads(s): .st is "ok" (and .val the value), or the error raised
Loads(s) ==
  LET r == ParseValue(s, SkipWs(s, 1), 0) IN
    IF r.st # "ok" THEN r
    ELSE IF SkipWs(s, r.pos) <= Len(s) THEN DecodeError
    ELSE r

\* ------------------------------------------------------------ json.dumps
\* the keys of the generated objects, in the order they are written
KeyOrder == << <<"a">>, <<"b">>, <<"Domain">>, <<"MatchingSkills">>,
              <<"Filename">>, <<"BestResumeFilename">> >>

RECURSIVE Repeat(_, _)
Repeat(c, n) == IF n = 0 THEN <<>> ELSE <<c>> \o Repeat(c, n - 1)

RECURSIVE Dumps(_, _, _)
RECURSIVE DumpItems(_, _, _, _)
RECURSIVE DumpPairs(_, _, _, _, _)

\* the elements of array a from index i on
DumpItems(a, i, tc, curly) ==
  IF i > Len(a) THEN <<>>
  ELSE (IF i > 1 THEN <<CM, SP>> ELSE <<>>) \o Dumps(a[i], tc, curly)
       \o DumpItems(a, i + 1, tc, curly)

\* the pairs of object o whose keys are KeyOrder[i..]; first: none written yet
DumpPairs(o, i, first, tc, curly) ==
  IF i > Len(KeyOrder) THEN <<>>
  ELSE IF ~HasKey(o, KeyOrder[i]) THEN DumpPairs(o, i + 1, first, tc, curly)
  ELSE (IF first THEN <<>> ELSE <<CM, SP>>)
       \o (IF curly THEN <<LDQ>> ELSE <<DQ>>) \o KeyOrder[i]
       \o (IF curly THEN <<RDQ>> ELSE <<DQ>>) \o <<CL, SP>>
       \o Dumps(Get(o, KeyOrder[i], NoVal), tc, curly)
       \o DumpPairs(o, i + 1, FALSE, tc, curly)

\* The text of value v.  tc is what is written after the last item of a
\* non-empty container (<<>> in valid JSON, a trailing comma in a defective
\* text); curly: the strings are delimited by typographic double quotes.
Dumps(v, tc, curly) ==
  IF v.t = "num" THEN Repeat(ONE, v.n)
  ELSE IF v.t = "str" THEN
    (IF curly THEN <<LDQ>> ELSE <<DQ>>) \o v.s \o (IF curly THEN <<RDQ>> ELSE <<DQ>>)
  ELSE IF v.t = "arr" THEN
    <<LK>> \o DumpItems(v.arr, 1, tc, curly)
           \o (IF v.arr = <<>> THEN <<>> ELSE tc) \o <<RK>>
  ELSE <<LB>> \o DumpPairs(v, 1, TRUE, tc, curly)
              \o (IF v.obj = {} THEN <<>> ELSE tc) \o <<RB>>

\* json.dumps(v)
Serialize(v) == Dumps(v, <<>>, FALSE)

\* ------------------------------------------------------ extract_json_obj
RECURSIVE FirstIndex(_, _, _)
\* the least index >= i of character c in s, or 0
FirstIndex(s, c, i) ==
  IF i > Len(s) THEN 0 ELSE IF s[i] = c THEN i ELSE FirstIndex(s, c, i + 1)

RECURSIVE LastIndex(_, _, _)
\* the greatest index <= i of character c in s, or 0
LastIndex(s, c, i) ==
  IF i < 1 THEN 0 ELSE IF s[i] = c THEN i ELSE LastIndex(s, c, i - 1)

\* FindSpan with a lazy star, r'\{[\s\S]*?\}': the match ends at the first '}'
FindSpanLazy(txt) ==
  LET b == FirstIndex(txt, LB, 1)
      e == IF b = 0 THEN 0 ELSE FirstIndex(txt, RB, b) IN
    IF b = 0 \/ e = 0 THEN [found |-> FALSE, raw |-> <<>>]
    ELSE [found |-> TRUE, raw |-> SubSeq(txt, b, e)]

\* FindSpan from text.find('{') and text.rfind('}') with no test of their order
FindSpanUnordered(txt) ==
  LET b == FirstIndex(txt, LB, 1)
      e == LastIndex(txt, RB, Len(txt)) IN
    IF b = 0 \/ e = 0 THEN [found |-> FALSE, raw |-> <<>>]
    ELSE [found |-> TRUE, raw |-> SubSeq(txt, b, e)]

\* re.search(r'\{[\s\S]*\}', text): the leftmost match starts at the first
\* '{' and, the star being greedy, ends at the last '}' after it.
\* .found is FALSE when there is no match; .raw is m.group(0).
FindSpan(txt) ==
  LET b == FirstIndex(txt, LB, 1)
      e == LastIndex(txt, RB, Len(txt)) IN
    IF b = 0 \/ e < b THEN [found |-> FALSE, raw |-> <<>>]
    ELSE [found |-> TRUE, raw |-> SubSeq(txt, b, e)]

RECURSIVE SubTrailing(_, _, _)
\* re.sub(r',\s*' + close, close, s) from index i: one pass from the left
\* over non-overlapping matches
SubTrailing(s, close, i) ==
  IF i > Len(s) THEN <<>>
  ELSE IF s[i] = CM /\ SkipWs(s, i + 1) <= Len(s) /\ s[SkipWs(s, i + 1)] = close
    THEN <<close>> \o SubTrailing(s, close, SkipWs(s, i + 1) + 1)
  ELSE <<s[i]>> \o SubTrailing(s, close, i + 1)

\* str.replace(old, new) for a single character
Replace(s, old, new) == [i \in 1..Len(s) |-> IF s[i] = old THEN new ELSE s[i]]

\* Clean without line 100, the commas before ']'
CleanNoBracket(span) ==
  LET c1 == SubTrailing(span, RB, 1)
      c3 == Replace(Replace(c1, LDQ, DQ), RDQ, DQ) IN
    Replace(Replace(c3, LSQ, AP), RSQ, AP)

\* lines 98-101: the cleaning of the span, in the order of the code
Clean(span) ==
  LET c1 == SubTrailing(span, RB, 1)
      c2 == SubTrailing(c1, RK, 1)
      c3 == Replace(Replace(c2, LDQ, DQ), RDQ, DQ) IN
    Replace(Replace(c3, LSQ, AP), RSQ, AP)

\* What a call ends with: kind "mapping" (val is the dict returned), "None"
\* (None returned) or "raise" (err is the exception that leaves the call).
RetMapping(v) == [kind |-> "mapping", val |-> v, err |-> ""]

RetNone == [kind |-> "None", val |-> NoVal, err |-> ""]

Raise(e) == [kind |-> "raise", val |-> NoVal, err |-> e]

\* the handler of the first json.loads (line 96): the exceptions it catches
StrictCaught == {"JSONDecodeError"}

\* a second handler as narrow as the first: except json.JSONDecodeError
CaughtDecodeOnly == {"JSONDecodeError"}

\* the handler of the second json.loads (line 104): except Exception
CleanedCaught == {"JSONDecodeError", "RecursionError"}

\* lines 102-105
LoadCleaned(c) ==
  LET r == Loads(c) IN
    IF r.st = "ok" THEN RetMapping(r.val)
    ELSE IF r.st \in CleanedCaught THEN RetNone
    ELSE Raise(r.st)

\* lines 93-105
LoadRaw(span) ==
  LET r == Loads(span) IN
    IF r.st = "ok" THEN RetMapping(r.val)
    ELSE IF r.st \in StrictCaught THEN LoadCleaned(Clean(span))
    ELSE Raise(r.st)

\* extract_json_obj(text)
ExtractJsonObj(txt) ==
  LET m == FindSpan(txt) IN
    IF ~m.found THEN RetNone ELSE LoadRaw(m.raw)

\* ----------------------------------------------------- the texts analysed
\* string contents: plain, and the ones the cleaning would rewrite
StrSet == { <<"x">>, <<CM, SP, RB>>, <<CM, RK>>, <<LDQ>>, <<RSQ>> }

Leaves == {Num(1)} \cup {Str(x) : x \in StrSet}

PairsOf(f) == {<<k, f[k]>> : k \in DOMAIN f}

\* the objects with keys among K and values in V
ObjsOver(K, V) == {Obj(PairsOf(f)) : f \in UNION {[D -> V] : D \in SUBSET K}}

\* the arrays of at most MaxArr values of V
ArrsOver(V) == {Arr(a) : a \in UNION {[1..n -> V] : n \in 0..MaxArr}}

Inner == Leaves \cup ArrsOver(Leaves) \cup ObjsOver({<<"a">>}, Leaves)

RECURSIVE Chain(_)
\* {"a": {"a": ... 1}}: n objects deep
Chain(n) == IF n = 0 THEN Num(1) ELSE Obj({<< <<"a">>, Chain(n - 1) >>})

JsonObjects ==
  ObjsOver({<<"a">>, <<"b">>}, Inner) \cup {Chain(n) : n \in 1..MaxNest}

RECURSIVE Depth(_)
RECURSIVE MaxOver(_)
MaxOver(S) == IF S = {} THEN 0 ELSE LET x == CHOOSE x \in S : \A y \in S : y <= x IN x

\* how deep the containers of v nest
Depth(v) ==
  IF v.t = "arr" THEN 1 + MaxOver({Depth(v.arr[i]) : i \in 1..Len(v.arr)})
  ELSE IF v.t = "obj" THEN 1 + MaxOver({Depth(p[2]) : p \in v.obj})
  ELSE 0

\* text before and after the object: prose, a lone brace, a matched pair
Prefixes == { <<>>, <<"x", SP>>, <<RB, SP>>, <<LB, "x", RB, SP>>, <<LK, SP>> }

Suffixes == { <<>>, <<SP, "x">>, <<SP, LB>>, <<SP, LB, "x", RB>>, <<SP, RK>> }

\* what a defective text writes after the last item of a container
Trailing == { <<CM>>, <<CM, SP>> }

\* the characters of the exhaustive family
RawChars == {LB, RB, RK, CM, SP, DQ, ONE, LDQ}

RawTexts == UNION {[1..n -> RawChars] : n \in 0..MaxRaw}

\* The scenarios of the specification, character by character:
\*   no json here / {"a": } / {"a": 1, "b": [1,1,], } /
\*   {LDQ a RDQ: LDQ b RDQ} / a JSON answer inside prose,
\* and a text with a trailing comma ahead of objects nested too deep.
Scenarios == {
  <<"x", SP, "x">>,
  <<LB, DQ, "a", DQ, CL, SP, RB>>,
  <<LB, DQ, "a", DQ, CL, SP, ONE, CM, SP, DQ, "b", DQ, CL, SP, LK, ONE, CM, ONE, CM, RK, CM, SP, RB>>,
  <<LB, LDQ, "a", RDQ, CL, SP, LDQ, "b", RDQ, RB>>,
  <<"x", SP, LB, DQ, "a", DQ, CL, SP, DQ, "x", DQ, CM, SP, DQ, "b", DQ, CL, SP, LK, DQ, "x", DQ, RK, RB, SP, "x">>,
  <<LB, DQ, "x", DQ, CL, LK, ONE, CM, RK, CM, DQ, "a", DQ, CL, LB, DQ, "a", DQ, CL, LB, DQ, "a", DQ, CL, LB, DQ, "a", DQ, CL, ONE, RB, RB, RB, RB>>
}

\* A text written from object O.  kind "valid": json.dumps(O) inside a prefix
\* and a suffix; kind "defective": O written with trailing commas, with
\* typographic double quotes around its strings, or both.
Written(kind, O, pre, suf, tc, curly) ==
  [kind |-> kind, O |-> O, pre |-> pre, suf |-> suf, tc |-> tc, curly |-> curly]

Free == Written("free", NoVal, <<>>, <<>>, <<>>, FALSE)

TextOf(w) == w.pre \o Dumps(w.O, w.tc, w.curly) \o w.suf

\* the ways a defective text departs from json.dumps
Defects == {d \in (Trailing \cup {<<>>}) \X BOOLEAN : d # << <<>>, FALSE >>}

Intents ==
  {Written("valid", O, pre, suf, <<>>, FALSE) :
     O \in JsonObjects, pre \in Prefixes, suf \in Suffixes}
  \cup {Written("defective", O, <<>>, <<>>, d[1], d[2]) :
     O \in JsonObjects, d \in Defects}

Pending == [kind |-> "pending", val |-> NoVal, err |-> ""]

\* the session fields a handler may assign, as they are when it starts
Snapshot(h, la, rt, ma, mt, br) ==
  [history |-> h, last_analysis |-> la, resume_text |-> rt,
   multi_analyses |-> ma, multi_resume_texts |-> mt, best_resume |-> br]

\* A run of a handler: the way it took, the files it read, what
\* extract_json_obj ended with on each analysis response, the context a
\* follow-up sent, and the session as the run found it.
Ran(handler, path, files, exts, ctx, before) ==
  [handler |-> handler, path |-> path, files |-> files, exts |-> exts,
   ctx |-> ctx, before |-> before]

NoCtx == [resume |-> <<>>, analysis |-> NoVal]

NoRun == Ran("none", "none", <<>>, <<>>, NoCtx,
             Snapshot(<<>>, EmptyDict, <<>>, <<>>, <<>>, EmptyDict))

NoOk == [kind |-> "none", analysis |-> NoVal, text |-> <<>>]

\* last_raw_response has no initializer: the key is absent until a handler
\* stores the response (none: the value stored is None)
Unset == [set |-> FALSE, none |-> FALSE, val |-> <<>>]

\* the session as the initializers of lines 110-121 leave it
SessionInit ==
  /\ history = <<>>
  /\ last_analysis = EmptyDict
  /\ resume_text = <<>>
  /\ multi_analyses = <<>>
  /\ multi_resume_texts = <<>>
  /\ best_resume = EmptyDict
  /\ last_raw_response = Unset
  /\ run = NoRun
  /\ runs = 0
  /\ last_ok = NoOk
  /\ best_resume_for = <<>>

sessionVars == <<history, last_analysis, resume_text, multi_analyses,
                 multi_resume_texts, best_resume, last_raw_response, run,
                 runs, last_ok, best_resume_for>>

callVars == <<text, intent, pc, raw, cleaned, nloads, ret>>

vars == <<text, intent, pc, raw, cleaned, nloads, ret, history, last_analysis,
          resume_text, multi_analyses, multi_resume_texts, best_resume,
          last_raw_response, run, runs, last_ok, best_resume_for>>

\* ------------------------------------------ one call of extract_json_obj
\* a call about to be made, on a written text or on a free text
InitExtract ==
  /\ \/ \E w \in Intents : intent = w /\ text = TextOf(w)
     \/ \E t \in RawTexts \cup Scenarios : intent = Free /\ text = t
  /\ pc = "search"
  /\ raw = <<>>
  /\ cleaned = <<>>
  /\ nloads = 0
  /\ ret = Pending
  /\ SessionInit

\* lines 89-92
Search ==
  /\ pc = "search"
  /\ LET m == FindSpan(text) IN
       IF ~m.found
         THEN pc' = "done" /\ ret' = RetNone /\ raw' = raw
         ELSE pc' = "strict" /\ raw' = m.raw /\ ret' = ret
  /\ UNCHANGED <<text, intent, cleaned, nloads>>
  /\ UNCHANGED sessionVars

\* lines 94-96
TryStrict ==
  /\ pc = "strict"
  /\ nloads' = nloads + 1
  /\ LET r == Loads(raw) IN
       IF r.st = "ok" THEN pc' = "done" /\ ret' = RetMapping(r.val)
       ELSE IF r.st \in StrictCaught THEN pc' = "clean" /\ ret' = ret
       ELSE pc' = "done" /\ ret' = Raise(r.st)
  /\ UNCHANGED <<text, intent, raw, cleaned>>
  /\ UNCHANGED sessionVars

\* lines 98-101
DoClean ==
  /\ pc = "clean"
  /\ cleaned' = Clean(raw)
  /\ pc' = "cleaned"
  /\ UNCHANGED <<text, intent, raw, nloads, ret>>
  /\ UNCHANGED sessionVars

\* lines 102-105
TryCleaned ==
  /\ pc = "cleaned"
  /\ nloads' = nloads + 1
  /\ ret' = LoadCleaned(cleaned)
  /\ pc' = "done"
  /\ UNCHANGED <<text, intent, raw, cleaned>>
  /\ UNCHANGED sessionVars

NextExtract == Search \/ TryStrict \/ DoClean \/ TryCleaned

SpecExtract == InitExtract /\ [][NextExtract]_vars

\* the steps of a call end with what the function as a whole computes
CallAgrees == pc = "done" => ret = ExtractJsonObj(text)

\* --------------------------------------------------- the session handlers
\* the PDFs a user uploads, by name; the text of each is its own
Files == {"r1", "r2"}

NoFile == "none"

\* extract_pdf_text_bytes(file)
ResumeText(f) == <<f>>

\* the lists of files given to the multi-resume uploader
Uploads == { <<>>, <<"r1">>, <<"r2", "r1">>, <<"r1", "r2">>,
             <<"r1", "r2", "r1", "r2", "r1">>,
             <<"r1", "r2", "r1", "r2", "r1", "r2">> }

\* line 186
MaxFiles == 5

\* handler runs explored in one session
MaxRuns == 3

K_Domain == <<"Domain">>
K_Skills == <<"MatchingSkills">>
K_Missing == <<"MissingKeywords">>
K_Companies == <<"PreviousCompanies">>
K_Filename == <<"Filename">>
K_Best == <<"BestResumeFilename">>

\* what get_gemini_response gives: a text, or an exception (ok is FALSE)
Reply(t) == [ok |-> TRUE, text |-> t]

ApiError == [ok |-> FALSE, text |-> <<>>]

\* an analysis of the resume of file f, as the prompt asks for it
Analysis(f, skills) == Obj({<<K_Domain, Str(<<f>>)>>, <<K_Skills, skills>>})

GoodAnalysis(f) == Analysis(f, Arr(<<Str(<<"x">>)>>))

GoodReply(f) == Reply(Serialize(GoodAnalysis(f)))

\* Responses the model may give to the analysis prompt of file f: the JSON
\* asked for, the same inside prose with a trailing comma, a skills field
\* that is a number, an empty object, prose only, nothing, an object nested
\* deeper than the parser goes; or the call fails.
AnalysisReplies(f) ==
  { GoodReply(f),
    Reply(<<"x", SP>> \o Dumps(GoodAnalysis(f), <<CM>>, FALSE)),
    Reply(Serialize(Analysis(f, Num(1)))),
    Reply(<<LB, RB>>),
    Reply(<<"x">>),
    Reply(<<>>),
    Reply(Serialize(Chain(RecLimit + 1))),
    ApiError }

\* responses to the ranking prompt for the files fs
RankingReplies(fs) ==
  { Reply(Serialize(Obj({<<K_Best, Str(<<fs[i]>>)>>}))) : i \in 1..Len(fs) }
  \cup { Reply(<<LB, RB>>), Reply(<<"x">>), Reply(Serialize(Chain(RecLimit + 1))),
         ApiError }

\* extract_json_obj on each text the model may answer, computed once
ReplyTexts ==
  {r.text : r \in UNION {AnalysisReplies(f) : f \in Files}
                  \cup UNION {RankingReplies(fs) : fs \in Uploads}}

Extracted == [t \in ReplyTexts |-> ExtractJsonObj(t)]

\* bool(parsed) for what extract_json_obj ended with: None and {} are false
Truthy(e) == e.kind = "mapping" /\ e.val # EmptyDict

\* ", ".join(v) raises TypeError unless v yields strings only
Joinable(v) ==
  \/ v.t \in {"str", "obj"}
  \/ v.t = "arr" /\ \A i \in 1..Len(v.arr) : v.arr[i].t = "str"

\* the list of lines 165-175 can be built
MessagesBuild(parsed) ==
  \A k \in {K_Skills, K_Missing, K_Companies} : Joinable(Get(parsed, k, Arr(<<>>)))

MsgLabels == <<"received", "domain", "experience", "skills", "missing",
               "strengths", "companies", "summary", "contact">>

\* str() of a field shown in a message
Shown(v) == IF v.t = "str" THEN v.s ELSE IF v.t = "none" THEN <<"N/A">> ELSE <<v.t>>

\* lines 165-175: the messages of one analysis
Messages(parsed, rtext) ==
  [i \in 1..Len(MsgLabels) |->
     [role |-> "bot",
      text |-> <<MsgLabels[i]>> \o
               (IF MsgLabels[i] = "domain" THEN Shown(Get(parsed, K_Domain, NoVal))
                ELSE IF MsgLabels[i] = "contact" THEN rtext ELSE <<>>)]]

Stored(reply) == [set |-> TRUE, none |-> ~reply.ok, val |-> reply.text]

Before == Snapshot(history, last_analysis, resume_text, multi_analyses,
                   multi_resume_texts, best_resume)

\* a handler runs when a button is clicked; no call of the first
\* specification is under way in a session
Idle == pc = "idle" /\ runs < MaxRuns

\* lines 135-178.  The way the run takes:
\*   warning          no job description or no file (line 137)
\*   pdf_error        the PDF cannot be read; the error is raised again (144)
\*   extract_raised   an error leaves extract_json_obj at line 158
\*   parse_error      "Could not parse JSON" (lines 160-161)
\*   message_error    last_analysis is stored, building the messages raises
\*   ok               lines 163-178
AnalyzeSingle ==
  /\ Idle
  /\ \E jd \in BOOLEAN, file \in Files \cup {NoFile}, pdf_ok \in BOOLEAN :
     \E reply \in (IF jd /\ file # NoFile /\ pdf_ok THEN AnalysisReplies(file) ELSE {ApiError}) :
     \* line 158: parsed = extract_json_obj(raw) if raw else None
     \E ext \in {IF reply.ok /\ reply.text # <<>>
                   THEN Extracted[reply.text] ELSE RetNone} :
       /\ run' =
            IF ~jd \/ file = NoFile
              THEN Ran("single", "warning", <<>>, <<>>, NoCtx, Before)
            ELSE IF ~pdf_ok
              THEN Ran("single", "pdf_error", <<>>, <<>>, NoCtx, Before)
            ELSE Ran("single",
                     IF ext.kind = "raise" THEN "extract_raised"
                     ELSE IF ~Truthy(ext) THEN "parse_error"
                     ELSE IF ~MessagesBuild(ext.val) THEN "message_error"
                     ELSE "ok",
                     <<file>>, <<ext>>, NoCtx, Before)
       \* line 147 is reached once the PDF is read
       /\ resume_text' = IF run'.files # <<>> THEN ResumeText(file) ELSE resume_text
       /\ last_raw_response' =
            IF run'.path = "parse_error" THEN Stored(reply) ELSE last_raw_response
       \* line 163 comes before the messages are built
       /\ last_analysis' = IF run'.path \in {"message_error", "ok"}
                              THEN run'.exts[1].val ELSE last_analysis
       /\ history' = IF run'.path = "ok"
                       THEN history \o Messages(last_analysis', resume_text')
                       ELSE history
       /\ last_ok' = IF run'.path \in {"message_error", "ok"}
                       THEN [kind |-> "single", analysis |-> last_analysis',
                             text |-> resume_text']
                       ELSE last_ok
  /\ runs' = runs + 1
  /\ UNCHANGED <<multi_analyses, multi_resume_texts, best_resume, best_resume_for>>
  /\ UNCHANGED callVars

\* parsed["Filename"] = f.name
WithFilename(parsed, f) == Obj(Put(parsed.obj, K_Filename, Str(<<f>>)))

RECURSIVE Join(_, _)
\* sep.join(ts)
Join(ts, sep) ==
  IF ts = <<>> THEN <<>>
  ELSE IF Len(ts) = 1 THEN ts[1]
  ELSE ts[1] \o sep \o Join(Tail(ts), sep)

\* the loop ends at a file: nothing more is added to the lists
LoopEnd(end, exts, stored) ==
  [all_analyses |-> <<>>, all_texts |-> <<>>, stored |-> stored, exts |-> exts,
   end |-> end]

RECURSIVE MultiLoop(_, _, _, _), LoopParsed(_, _, _, _, _)
\* The loop of lines 193-219 from file i on.  pdf_ok[i] and replies[i] are
\* what reading file i and asking the model about it give.  The result:
\* what the loop adds to all_analyses and all_texts from file i on, what
\* extract_json_obj ended with on each of these files, the response that
\* line 213 stores, and how the loop ended.
MultiLoop(fs, pdf_ok, replies, i) ==
  IF i > Len(fs) THEN LoopEnd("completed", <<>>, Unset)
  ELSE IF ~pdf_ok[i] THEN LoopEnd("pdf_error", <<>>, Unset)
  ELSE IF ~replies[i].ok THEN LoopEnd("api_error", <<>>, Unset)
  ELSE LoopParsed(fs, pdf_ok, replies, i, Extracted[replies[i].text])

\* lines 210-219 for file i, ext being what extract_json_obj ended with
LoopParsed(fs, pdf_ok, replies, i, ext) ==
  IF ext.kind = "raise" THEN LoopEnd("extract_raised", <<ext>>, Unset)
  ELSE IF ~Truthy(ext) THEN LoopEnd("parse_error", <<ext>>, Stored(replies[i]))
  ELSE [MultiLoop(fs, pdf_ok, replies, i + 1)
          EXCEPT !.exts = <<ext>> \o @,
                 !.all_analyses = <<WithFilename(ext.val, fs[i])>> \o @,
                 !.all_texts = <<ResumeText(fs[i])>> \o @]

\* the ways a file of a multi-resume run fails
Failures == {"pdf", "api", "junk", "empty_object", "too_deep"}

FailingReply(how) ==
  IF how = "api" THEN ApiError
  ELSE IF how = "junk" THEN Reply(<<"x">>)
  ELSE IF how = "empty_object" THEN Reply(<<LB, RB>>)
  ELSE Reply(Serialize(Chain(RecLimit + 1)))

\* What one multi-resume run meets: every file is read and analysed and
\* the ranking prompt is answered by rank, or file k is the first to fail,
\* in the way named.
Meets(fs) ==
  {[k |-> 0, how |-> "", rank |-> r] : r \in RankingReplies(fs)}
  \cup {[k |-> k, how |-> h, rank |-> ApiError] : k \in 1..Len(fs), h \in Failures}

\* lines 239-240: except Exception: ranking = None
NoneIfRaised(e) == IF e.kind = "raise" THEN RetNone ELSE e

\* lines 235-240: the ranking, None when anything raises
Ranking(reply) ==
  IF ~reply.ok THEN RetNone ELSE NoneIfRaised(Extracted[reply.text])

\* lines 183-247.  The way the run takes:
\*   warning          no job description, no files, or more than five
\*   pdf_error, api_error, parse_error   the loop broke with failed = True
\*   extract_raised   an error leaves extract_json_obj at line 210
\*   ranking_error    the batch is stored, "Could not parse ranking"
\*   ok               the batch and its ranking are stored
AnalyzeMulti ==
  /\ Idle
  /\ \E jd \in BOOLEAN, fs \in Uploads :
     \E m \in (IF jd /\ fs # <<>> /\ Len(fs) <= MaxFiles THEN Meets(fs)
               ELSE {[k |-> 0, how |-> "", rank |-> ApiError]}) :
     \E loop \in {IF jd /\ fs # <<>> /\ Len(fs) <= MaxFiles
                    THEN MultiLoop(fs,
                           [i \in 1..Len(fs) |-> ~(i = m.k /\ m.how = "pdf")],
                           [i \in 1..Len(fs) |->
                              IF i = m.k /\ m.how # "pdf" THEN FailingReply(m.how)
                              ELSE GoodReply(fs[i])],
                           1)
                    ELSE LoopEnd("warning", <<>>, Unset)},
        ranking \in {Ranking(m.rank)} :
       /\ run' = Ran("multi",
                     IF loop.end # "completed" THEN loop.end
                     ELSE IF ~Truthy(ranking) THEN "ranking_error"
                     ELSE "ok",
                     IF loop.end = "warning" THEN <<>> ELSE fs,
                     loop.exts, NoCtx, Before)
       \* lines 221-223: not failed
       /\ multi_analyses' = IF run'.path \in {"ranking_error", "ok"}
                              THEN loop.all_analyses ELSE multi_analyses
       /\ multi_resume_texts' = IF run'.path \in {"ranking_error", "ok"}
                                  THEN loop.all_texts ELSE multi_resume_texts
       /\ last_raw_response' =
            IF run'.path = "parse_error" THEN loop.stored ELSE last_raw_response
       \* lines 242-244
       /\ best_resume' = IF run'.path = "ok" THEN ranking.val ELSE best_resume
       /\ best_resume_for' = IF run'.path = "ok" THEN multi_analyses' ELSE best_resume_for
       /\ history' = IF run'.path = "ok"
                       THEN Append(history,
                              [role |-> "bot",
                               text |-> <<"best">> \o Shown(Get(best_resume', K_Best, NoVal))])
                       ELSE history
       /\ last_ok' = IF run'.path \in {"ranking_error", "ok"}
                       THEN [kind |-> "multi", analysis |-> Arr(multi_analyses'),
                             text |-> Join(multi_resume_texts', <<NL, NL>>)]
                       ELSE last_ok
  /\ runs' = runs + 1
  /\ UNCHANGED <<last_analysis, resume_text>>
  /\ UNCHANGED callVars

\* lines 252-273: the follow-up question q; reply is what the model answers
Ask ==
  /\ Idle
  /\ \E q \in {<<>>, <<"q">>}, reply \in {Reply(<<"x">>), ApiError} :
       LET context_analysis == IF multi_analyses # <<>> THEN Arr(multi_analyses)
                               ELSE last_analysis
           context_resume == IF multi_resume_texts # <<>>
                               THEN Join(multi_resume_texts, <<NL, NL>>)
                               ELSE resume_text
           answer == IF reply.ok THEN reply.text ELSE <<"Error calling Gemini">>
       IN IF q = <<>>
            THEN /\ history' = history
                 /\ run' = Ran("ask", "warning", <<>>, <<>>, NoCtx, Before)
            ELSE /\ history' = history \o <<[role |-> "user", text |-> q],
                                            [role |-> "bot", text |-> answer]>>
                 /\ run' = Ran("ask", "ok", <<>>, <<>>,
                               [resume |-> context_resume, analysis |-> context_analysis],
                               Before)
  /\ runs' = runs + 1
  /\ UNCHANGED <<last_analysis, resume_text, multi_analyses, multi_resume_texts,
                 best_resume, last_raw_response, last_ok, best_resume_for>>
  /\ UNCHANGED callVars

\* lines 311-314: every key is deleted and the script runs again
ClearSession ==
  /\ Idle
  /\ history' = <<>>
  /\ last_analysis' = EmptyDict
  /\ resume_text' = <<>>
  /\ multi_analyses' = <<>>
  /\ multi_resume_texts' = <<>>
  /\ best_resume' = EmptyDict
  /\ last_raw_response' = Unset
  /\ last_ok' = NoOk
  /\ best_resume_for' = <<>>
  /\ run' = Ran("clear", "ok", <<>>, <<>>, NoCtx, Before)
  /\ runs' = runs + 1
  /\ UNCHANGED callVars

\* a session just opened
Init ==
  /\ text = <<>>
  /\ intent = Free
  /\ pc = "idle"
  /\ raw = <<>>
  /\ cleaned = <<>>
  /\ nloads = 0
  /\ ret = Pending
  /\ SessionInit

Next == AnalyzeSingle \/ AnalyzeMulti \/ Ask \/ ClearSession

Spec == Init /\ [][Next]_vars

\* ------------------------------------------------ properties of one call
Done == pc = "done"

Idx(s, c) == {i \in 1..Len(s) : s[i] = c}

RECURSIVE Balance(_, _, _)
\* scanning s from i with n braces open: the number left open at the end,
\* or -1 once a '}' closes nothing
Balance(s, i, n) ==
  IF i > Len(s) THEN n
  ELSE IF s[i] = LB THEN Balance(s, i + 1, n + 1)
  ELSE IF s[i] = RB THEN (IF n = 0 THEN -1 ELSE Balance(s, i + 1, n - 1))
  ELSE Balance(s, i + 1, n)

\* no '{' or '}' of s is unmatched
NoUnmatched(s) == Balance(s, 1, 0) = 0

\* the commas of s that only whitespace separates from a following close
TrailingCommas(s, close) ==
  {i \in Idx(s, CM) : \E j \in Idx(s, close) :
     j > i /\ \A k \in (i + 1)..(j - 1) : s[k] = SP}

RECURSIVE Without(_, _, _)
\* s from index i on, without the characters at the indices I
Without(s, I, i) ==
  IF i > Len(s) THEN <<>>
  ELSE (IF i \in I THEN <<>> ELSE <<s[i]>>) \o Without(s, I, i + 1)

Straight(c) ==
  IF c \in {LDQ, RDQ} THEN DQ ELSE IF c \in {LSQ, RSQ} THEN AP ELSE c

\* the repairs as the specification lists them, in its order: the commas
\* are dropped, the quotes made plain
RepairedAsStated(s) ==
  LET s1 == Without(s, TrailingCommas(s, RB), 1)
      s2 == Without(s1, TrailingCommas(s1, RK), 1) IN
    [i \in 1..Len(s2) |-> Straight(s2[i])]

\* a trailing comma of s and the whitespace between it and the close
TrailingRuns(s, close) ==
  {k \in 1..Len(s) : \E i \in TrailingCommas(s, close) :
     i <= k /\ \A m \in (i + 1)..k : s[m] = SP}

\* the same repairs, each comma dropped with the whitespace that follows it
Repaired(s) ==
  LET s1 == Without(s, TrailingRuns(s, RB), 1)
      s2 == Without(s1, TrailingRuns(s1, RK), 1) IN
    [i \in 1..Len(s2) |-> Straight(s2[i])]

\* some string of s would be rewritten by the repairs
Rewritten(x) ==
  \/ TrailingCommas(x, RB) # {}
  \/ TrailingCommas(x, RK) # {}
  \/ \E i \in 1..Len(x) : x[i] \in {LDQ, RDQ, LSQ, RSQ}

RECURSIVE PlainStrings(_)
\* no key and no string of v would be rewritten by the repairs
PlainStrings(v) ==
  IF v.t = "str" THEN ~Rewritten(v.s)
  ELSE IF v.t = "arr" THEN \A i \in 1..Len(v.arr) : PlainStrings(v.arr[i])
  ELSE IF v.t = "obj" THEN \A p \in v.obj : ~Rewritten(p[1]) /\ PlainStrings(p[2])
  ELSE TRUE

TooDeep(v) == Depth(v) > RecLimit

\* C1: for every valid JSON object O, extract_json_obj(serialize(O)) returns
\* a mapping deep-equal to O, from the one strict parse of the whole text
C1_RoundTrip ==
  (Done /\ intent.kind = "valid" /\ intent.pre = <<>> /\ intent.suf = <<>>)
    => (ret = RetMapping(intent.O) /\ raw = text /\ nloads = 1)

\* C2 as stated, on the objects the parser can hold: with a prefix and a
\* suffix in which no brace is unmatched, the call returns O
C2_MatchedBraces ==
  (Done /\ intent.kind = "valid" /\ ~TooDeep(intent.O)
        /\ NoUnmatched(intent.pre) /\ NoUnmatched(intent.suf))
    => ret = RetMapping(intent.O)

\* C2 amended: with no '{' in the prefix and no '}' in the suffix the call
\* ends as it does on serialize(O) alone: it returns O, or, for an O nested
\* deeper than the parser goes, the parser's RecursionError leaves the call
C2_NoBraceBeforeNorAfter ==
  (Done /\ intent.kind = "valid"
        /\ Idx(intent.pre, LB) = {} /\ Idx(intent.suf, RB) = {})
    => ret = (IF TooDeep(intent.O) THEN Raise("RecursionError")
              ELSE RetMapping(intent.O))

\* a '}' before the object and a '{' after it, and the object is returned
C2_Witness ==
  /\ Done /\ intent.kind = "valid"
  /\ Idx(intent.pre, RB) # {} /\ Idx(intent.suf, LB) # {}
  /\ Idx(intent.suf, RB) = {} /\ Idx(intent.pre, LB) = {}
  /\ intent.O.obj # {}
  /\ ret = RetMapping(intent.O)

\* C3 as stated, first part: when the strict parse of the span fails as not
\* being JSON, the call returns the strict parse of the span with the
\* commas before '}' and ']' dropped and the quotes made plain (None when
\* that parse fails too)
C3_ParseOfStatedRepairs ==
  (Done /\ FindSpan(text).found /\ Loads(FindSpan(text).raw).st = "JSONDecodeError")
    => LET r == Loads(RepairedAsStated(FindSpan(text).raw)) IN
         ret = (IF r.st = "ok" THEN RetMapping(r.val) ELSE RetNone)

\* C3 as stated, on the objects the parser can hold: the first part, and a
\* span whose only defects are trailing commas and typographic double-quote
\* delimiters yields the mapping meant
C3_YieldsIntended ==
  /\ C3_ParseOfStatedRepairs
  /\ (Done /\ intent.kind = "defective" /\ ~TooDeep(intent.O))
       => ret = RetMapping(intent.O)

\* C3 amended: the repairs drop each such comma together with the
\* whitespace after it, and the call returns the strict parse of the span
\* so repaired (None when that fails); a span whose only defects are
\* trailing commas and typographic double-quote delimiters yields the
\* mapping meant when none of its keys and strings holds a comma followed
\* by optional whitespace and '}' or ']' or a typographic quote; nested
\* deeper than the parser goes it yields None (the repaired parse) or the
\* RecursionError of the strict parse
C3_YieldsIntendedIfPlain ==
  /\ (Done /\ FindSpan(text).found /\ Loads(FindSpan(text).raw).st = "JSONDecodeError")
       => LET r == Loads(Repaired(FindSpan(text).raw)) IN
            ret = (IF r.st = "ok" THEN RetMapping(r.val) ELSE RetNone)
  /\ (Done /\ intent.kind = "defective")
       => IF TooDeep(intent.O)
            THEN ret = (IF intent.curly THEN RetNone ELSE Raise("RecursionError"))
            ELSE PlainStrings(intent.O) => ret = RetMapping(intent.O)

\* trailing commas and typographic delimiters, repaired into the mapping
C3_Witness ==
  /\ Done /\ intent.kind = "defective"
  /\ intent.tc # <<>> /\ intent.curly
  /\ \E p \in intent.O.obj : p[2].t = "arr" /\ p[2].arr # <<>>
  /\ nloads = 2
  /\ ret = RetMapping(intent.O)

\* C4: a text with no '{', or no '}', or whose every '}' comes before its
\* first '{', ends in None and json.loads is never called
C4_NoCandidate ==
  (Done /\ (\/ Idx(text, LB) = {}
            \/ Idx(text, RB) = {}
            \/ \A i \in Idx(text, RB) : \A j \in Idx(text, LB) : i < j))
    => (ret = RetNone /\ nloads = 0)

\* both braces are there, every '}' before the first '{'
C4_Witness ==
  /\ Done
  /\ Idx(text, LB) # {} /\ Idx(text, RB) # {}
  /\ \A i \in Idx(text, RB) : \A j \in Idx(text, LB) : i < j
  /\ ret = RetNone

\* a span exists, the strict parse fails as not being JSON and the parse of
\* the repaired span fails
BothParsesFail ==
  /\ FindSpan(text).found
  /\ Loads(FindSpan(text).raw).st = "JSONDecodeError"
  /\ Loads(Repaired(FindSpan(text).raw)).st # "ok"

\* C5 as stated: when both parses fail the call ends in a failure that is
\* not the one of a text without a candidate span
C5_DistinctFailure == (Done /\ BothParsesFail) => ret # ExtractJsonObj(<<>>)

\* C5 amended: when both parses fail the call returns None, the very value
\* it returns for a text without a candidate span, and nothing of the span
C5_ReturnsNone ==
  (Done /\ BothParsesFail)
    => (ret = RetNone /\ ret = ExtractJsonObj(<<>>) /\ nloads = 2)

\* the repaired parse fails on the depth of the nesting, not on the syntax
C5_Witness ==
  /\ Done /\ BothParsesFail
  /\ Loads(Repaired(FindSpan(text).raw)).st = "RecursionError"
  /\ ret = RetNone

\* C6: no error of either parse leaves the call
C6_NoErrorEscapes == Done => ret.kind # "raise"

\* --------------------------------------------- properties of a session
\* the run just made was a single-resume analysis that reached line 158
SingleAnalysed == run.handler = "single" /\ run.exts # <<>>

\* the run just made was a multi-resume analysis whose loop broke
MultiFailed ==
  /\ run.handler = "multi"
  /\ run.path \in {"pdf_error", "api_error", "parse_error", "extract_raised"}

\* the batch that the files and their extracted mappings make
BatchOf(files, exts) ==
  [i \in 1..Len(exts) |-> WithFilename(exts[i].val, files[i])]

\* The responses explored name, in Domain, the resume they analyse: a
\* mapping belongs to the resume whose text is rtext when it names it.
ForResume(analysis, rtext) == Get(analysis, K_Domain, NoVal) = Str(rtext)

\* C7: whenever extract_json_obj returns a mapping for the analysis
\* response, the empty mapping included, the single-resume handler stores
\* it in last_analysis and appends the result messages to history, and the
\* multi-resume handler adds it to the batch; the parse-error path, which
\* stores the raw response, is taken only when extraction returned None.
C7_MappingIsForwarded ==
  /\ SingleAnalysed /\ run.exts[1].kind = "mapping"
       => /\ last_analysis = run.exts[1].val
          /\ history = run.before.history \o Messages(run.exts[1].val, resume_text)
  /\ run.handler = "multi" /\ run.path \in {"ranking_error", "ok"}
       => multi_analyses = BatchOf(run.files, run.exts)
  /\ run.path = "parse_error" => run.exts[Len(run.exts)].kind = "None"

\* C8: a follow-up with a non-empty question sends as context the
\* analysis and the resume text of the latest successful analysis, the
\* batch if that was a multi-resume run, the single analysis otherwise.
C8_AskSendsLatestAnalysis ==
  run.handler = "ask" /\ run.path = "ok" /\ last_ok.kind # "none"
    => /\ run.ctx.analysis = last_ok.analysis
       /\ run.ctx.resume = last_ok.text

\* C9: multi_analyses and multi_resume_texts have the same length, at most
\* five, entry i of each comes from the same file, a multi-resume run in
\* which a file fails changes neither list, and best_resume, when not
\* empty, is the ranking computed for the batch held in multi_analyses.
C9_OneBatch ==
  /\ Len(multi_analyses) = Len(multi_resume_texts)
  /\ Len(multi_analyses) <= MaxFiles
  /\ \A i \in 1..Len(multi_analyses) :
       \E f \in Files : /\ Get(multi_analyses[i], K_Filename, NoVal) = Str(<<f>>)
                        /\ multi_resume_texts[i] = ResumeText(f)
  /\ MultiFailed => /\ multi_analyses = run.before.multi_analyses
                    /\ multi_resume_texts = run.before.multi_resume_texts
  /\ best_resume # EmptyDict => best_resume_for = multi_analyses

\* C10: resume_text and last_analysis belong to the same resume, both
\* initial or last_analysis parsed from the response for the resume whose
\* text is in resume_text, and a single-resume analysis that fails, by an
\* error of the model call or an unparseable response, leaves both and
\* history unchanged.
C10_SameResume ==
  /\ \/ last_analysis = EmptyDict /\ resume_text = <<>>
     \/ last_analysis # EmptyDict /\ ForResume(last_analysis, resume_text)
  /\ SingleAnalysed /\ run.exts[1].kind = "None"
       => /\ resume_text = run.before.resume_text
          /\ last_analysis = run.before.last_analysis
          /\ history = run.before.history

====
